---- MODULE Spec2Model ----
(***************************************************************************)
(* Model of simulated-data/create_metagenomes.py: the read sampler         *)
(* (sample_reads) and the composer (create_metagenome).                    *)
(*                                                                         *)
(* A FASTQ file is a sequence of lines; a line is <<org, n>>, the n-th     *)
(* line (0-based) of the file of organism org.  Four consecutive lines     *)
(* are one read.  The output directory is a pair of maps from file names   *)
(* to contents: scratch files temp_{org}_rep{n}.fastq and artifacts        *)
(* metagenome_euk{P}_phage{Q}_rep{n}.fastq.  The module-level generator    *)
(* of `random` is one shared variable.  Ratios are kept as percentages     *)
(* (0, 50, 100), for which total_reads * ratio is exact in floating        *)
(* point, so int() is the integer quotient.                                *)
(***************************************************************************)
EXTENDS Integers, Sequences, FiniteSets, TLC

VARIABLES temp_files, output_files, rng, euk_files, phage_files, jobs, last, ref

vars == <<temp_files, output_files, rng, euk_files, phage_files, jobs, last, ref>>

----------------------------------------------------------------------------
(* Bounds *)

SourceReads == 6         \* reads in a non-empty source file of a composition
MaxEuk == 2              \* sources in the eukaryote group
MaxPhage == 1            \* sources in the phage group
MaxTotalReads == 10      \* total_reads of a composition
MaxReplicate == 2        \* replicate indices and seeds 1..MaxReplicate
SamplerMaxRecords == 3   \* most reads in the source of a direct sample_reads call
SamplerMaxCount == 2     \* num_reads of a direct sample_reads call
ParMaxSources == 1       \* sources per group of interleaved compositions
ParMaxRecords == 2       \* reads per source of interleaved compositions
ParMaxTotalReads == 4    \* total_reads of interleaved compositions

----------------------------------------------------------------------------
(* The pseudorandom generator: a full-period congruential generator over  *)
(* RngMod states stands for the Mersenne Twister behind random.           *)

None == -1

RngMod == 8

SeedState(seed) == (7 * seed + 1) % RngMod

NextState(g) == (5 * g + 3) % RngMod

\* random.randint(a, b) drawn from generator state g
RandInt(g, a, b) == a + (NextState(g) % (b - a + 1))

ReseedKeep(g, seed) == g

\* if seed is not None: random.seed(seed)
Reseed(g, seed) == IF seed # None THEN SeedState(seed) ELSE g

----------------------------------------------------------------------------
(* Files *)

LinesPerRead == 4

\* the content of a well-formed file of n reads of organism org
FileLines(org, n) == [k \in 1..(LinesPerRead * n) |-> <<org, k - 1>>]

Missing == -1

\* a read file path: the organism it belongs to and the number of reads
\* the file holds, Missing when there is no file at the path
ReadFile(org, n) == [org |-> org, reads |-> n]

Exists(file) == file.reads # Missing

Lines(file) == FileLines(file.org, file.reads)

WriteFile(dir, name, content) ==
    [x \in (DOMAIN dir) \cup {name} |-> IF x = name THEN content ELSE dir[x]]

RemoveFile(dir, name) == [x \in (DOMAIN dir) \ {name} |-> dir[x]]

count_reads_in_file(lines) == Len(lines) \div LinesPerRead

----------------------------------------------------------------------------
(* sample_reads *)

TakesAllStrict(num_reads, total_reads) == num_reads > total_reads

TakesAllNonEmpty(num_reads, total_reads) ==
    num_reads >= total_reads /\ total_reads > 0

\* if num_reads >= total_reads: copy the file
TakesAll(num_reads, total_reads) == num_reads >= total_reads

\* the while loop: draws read indices until the set of selected LINE
\* numbers holds at least num_reads elements
RECURSIVE SelectLoop(_, _, _, _, _)
SelectLoop(g, total_reads, num_reads, selected_lines, draws) ==
    IF Cardinality(selected_lines) < num_reads
    THEN LET read_start == RandInt(g, 0, total_reads - 1) * LinesPerRead
         IN  SelectLoop(NextState(g), total_reads, num_reads,
                        selected_lines \cup {read_start + i : i \in 0..(LinesPerRead - 1)},
                        draws + 1)
    ELSE [selected_lines |-> selected_lines, rng |-> g, draws |-> draws]

RECURSIVE WriteSelectedRev(_, _, _)
WriteSelectedRev(lines, selected_lines, line_num) ==
    IF line_num >= Len(lines) THEN <<>>
    ELSE WriteSelectedRev(lines, selected_lines, line_num + 1)
         \o (IF line_num \in selected_lines THEN <<lines[line_num + 1]>> ELSE <<>>)

\* for line_num, line in enumerate(infile): write the selected lines
RECURSIVE WriteSelected(_, _, _)
WriteSelected(lines, selected_lines, line_num) ==
    IF line_num >= Len(lines) THEN <<>>
    ELSE (IF line_num \in selected_lines THEN <<lines[line_num + 1]>> ELSE <<>>)
         \o WriteSelected(lines, selected_lines, line_num + 1)

Raised(g) == [status |-> "error", out |-> <<>>, ret |-> 0, rng |-> g, draws |-> 0]

\* sample_reads(input_file, output_file, num_reads, seed): the content
\* written to output_file, the returned count, the generator state left
\* behind and the number of draws made; status "error" when it raises
sample_reads(g, file, num_reads, seed) ==
    LET g1 == Reseed(g, seed) IN
    IF ~Exists(file) THEN Raised(g1)                 \* open() in count_reads_in_file
    ELSE LET total_reads == count_reads_in_file(Lines(file)) IN
         IF TakesAll(num_reads, total_reads)
         THEN [status |-> "ok", out |-> Lines(file), ret |-> total_reads,
               rng |-> g1, draws |-> 0]
         ELSE IF num_reads > 0 /\ total_reads <= 0
         THEN Raised(g1)                             \* randint on an empty range
         ELSE LET s == SelectLoop(g1, total_reads, num_reads, {}, 0) IN
              [status |-> "ok",
               out |-> WriteSelected(Lines(file), s.selected_lines, 0),
               ret |-> Cardinality(s.selected_lines) \div LinesPerRead,
               rng |-> s.rng, draws |-> s.draws]

NoCall == [called |-> FALSE]

\* the call before was made with a seed, and with another one than seed
OtherSeed(call, seed) == call.called /\ call.seed # None /\ call.seed # seed

\* ghost record of one call: its arguments and result, whether it came after
\* the reference call, and whether the call before it used another seed
CallRecord(file, num_reads, seed, res, later, other_seed) ==
    [called |-> TRUE, file |-> file, num_reads |-> num_reads, seed |-> seed,
     status |-> res.status, out |-> res.out, ret |-> res.ret,
     draws |-> res.draws, later |-> later, other_seed |-> other_seed]

----------------------------------------------------------------------------
(* create_metagenome *)

Percent == 100

Ratios == {0, 50, 100}

\* int(total_reads * ratio)
GroupReads(total, ratio) == (total * ratio) \div Percent

\* reads // len(files) if files else 0
ReadsPer(reads, files) == IF Len(files) > 0 THEN reads \div Len(files) ELSE 0

euk_reads(job) == GroupReads(job.total_reads, job.euk_ratio)
phage_reads(job) == GroupReads(job.total_reads, job.phage_ratio)
reads_per_euk(job) == ReadsPer(euk_reads(job), euk_files)
reads_per_phage(job) == ReadsPer(phage_reads(job), phage_files)

\* the sources in the order the two for loops visit them
Visits == euk_files \o phage_files

IsEuk(i) == i <= Len(euk_files)

Quota(job, i) == IF IsEuk(i) THEN reads_per_euk(job) ELSE reads_per_phage(job)

ShouldSampleAlways(quota) == quota >= 0

\* if reads_per_euk > 0 / if reads_per_phage > 0
ShouldSample(quota) == quota > 0

SeedPerSource(job, i) == job.replicate_num + i

\* seed=replicate_num
SeedFor(job, i) == job.replicate_num

TempName(org_name, replicate_num) == <<org_name, replicate_num>>

OutputName(job) == <<job.euk_ratio, job.phage_ratio, job.replicate_num>>

NewJob(er, pr, rep, total) ==
    [euk_ratio |-> er, phage_ratio |-> pr, replicate_num |-> rep,
     total_reads |-> total, pc |-> "start", i |-> 1, segs |-> <<>>, sampled |-> {},
     final_read_count |-> 0]

\* output_path.mkdir; open(output_file, 'w')
Open(j) ==
    /\ jobs[j].pc = "start"
    /\ output_files' = WriteFile(output_files, OutputName(jobs[j]), <<>>)
    /\ jobs' = [jobs EXCEPT ![j].pc = "visit"]
    /\ UNCHANGED <<temp_files, rng, euk_files, phage_files, last, ref>>

\* a loop iteration whose quota test is false
Skip(j) ==
    /\ jobs[j].pc = "visit"
    /\ jobs[j].i <= Len(Visits)
    /\ ~ShouldSample(Quota(jobs[j], jobs[j].i))
    /\ jobs' = [jobs EXCEPT ![j].i = @ + 1]
    /\ UNCHANGED <<temp_files, output_files, rng, euk_files, phage_files, last, ref>>

\* actual_reads = sample_reads(read_file, temp_file, quota, seed=replicate_num)
Sample(j) ==
    LET job == jobs[j]
        src == Visits[job.i]
        res == sample_reads(rng, src.read_file, Quota(job, job.i), SeedFor(job, job.i))
    IN  /\ job.pc = "visit"
        /\ job.i <= Len(Visits)
        /\ ShouldSample(Quota(job, job.i))
        /\ rng' = res.rng
        /\ last' = CallRecord(src.read_file, Quota(job, job.i), SeedFor(job, job.i), res, FALSE,
                            OtherSeed(last, SeedFor(job, job.i)))
        /\ IF res.status = "ok"
           THEN /\ temp_files' = WriteFile(temp_files,
                                           TempName(src.org_name, job.replicate_num), res.out)
                /\ jobs' = [jobs EXCEPT ![j].pc = "read",
                                        ![j].sampled = @ \cup {job.i},
                                        ![j].segs = Append(@, [i |-> job.i, out |-> res.out])]
           ELSE /\ jobs' = [jobs EXCEPT ![j].pc = "failed",
                                        ![j].sampled = @ \cup {job.i}]
                /\ UNCHANGED temp_files
        /\ UNCHANGED <<output_files, euk_files, phage_files, ref>>

\* with open(temp_file, 'r') as temp: outfile.write(temp.read())
ReadBack(j) ==
    LET job == jobs[j]
        temp_file == TempName(Visits[job.i].org_name, job.replicate_num)
    IN  /\ job.pc = "read"
        /\ IF temp_file \in DOMAIN temp_files
           THEN /\ output_files' = [output_files EXCEPT
                                      ![OutputName(job)] = @ \o temp_files[temp_file]]
                /\ jobs' = [jobs EXCEPT ![j].pc = "unlink"]
           ELSE /\ jobs' = [jobs EXCEPT ![j].pc = "failed"]
                /\ UNCHANGED output_files
        /\ UNCHANGED <<temp_files, rng, euk_files, phage_files, last, ref>>

\* temp_file.unlink()
Unlink(j) ==
    LET job == jobs[j]
        temp_file == TempName(Visits[job.i].org_name, job.replicate_num)
    IN  /\ job.pc = "unlink"
        /\ IF temp_file \in DOMAIN temp_files
           THEN /\ temp_files' = RemoveFile(temp_files, temp_file)
                /\ jobs' = [jobs EXCEPT ![j].pc = "visit", ![j].i = @ + 1]
           ELSE /\ jobs' = [jobs EXCEPT ![j].pc = "failed"]
                /\ UNCHANGED temp_files
        /\ UNCHANGED <<output_files, rng, euk_files, phage_files, last, ref>>

\* final_read_count = count_reads_in_file(output_file); return
Count(j) ==
    /\ jobs[j].pc = "visit"
    /\ jobs[j].i > Len(Visits)
    /\ jobs' = [jobs EXCEPT ![j].pc = "done",
                            ![j].final_read_count =
                                count_reads_in_file(output_files[OutputName(jobs[j])])]
    /\ UNCHANGED <<temp_files, output_files, rng, euk_files, phage_files, last, ref>>

----------------------------------------------------------------------------
(* Inputs *)

euk_dirs == <<"euk1", "euk2", "euk3">>

phage_dirs == <<"phage1", "phage2", "phage3", "phage4", "phage5">>

\* the mappings organism -> read file of n organisms, in insertion order
Groups(dirs, n, choices) ==
    {[k \in 1..n |-> [org_name |-> dirs[k], read_file |-> ReadFile(dirs[k], c[k])]] :
        c \in [1..n -> choices]}

RatioPairs == {<<r, Percent - r>> : r \in Ratios}

\* the generator is seeded from the system at import: any state
InitialRng == 0..(RngMod - 1)

\* the source of a direct call: missing, empty, or of one of the two
\* largest sizes
SamplerChoices == {Missing, 0, SamplerMaxRecords - 1, SamplerMaxRecords}

\* the source files of a composition: missing, empty, or of SourceReads reads
SourceChoices == {Missing, 0, SourceReads}

\* the generator states a composition is started from
ComposeInitialRng == {0, RngMod - 1}

JobKey(rp, rep) == rp[1] * (MaxReplicate + 1) + rep

----------------------------------------------------------------------------
(* One composition, run alone in an empty output directory *)

Init ==
    /\ temp_files = <<>>
    /\ output_files = <<>>
    /\ rng \in ComposeInitialRng
    /\ \E n \in 0..MaxEuk : euk_files \in Groups(euk_dirs, n, SourceChoices)
    /\ \E n \in 0..MaxPhage : phage_files \in Groups(phage_dirs, n, SourceChoices)
    /\ \E rp \in RatioPairs, rep \in 1..MaxReplicate, total \in 0..MaxTotalReads :
          jobs = <<NewJob(rp[1], rp[2], rep, total)>>
    /\ last = NoCall
    /\ ref = NoCall

Next ==
    \/ \E j \in DOMAIN jobs : Open(j)
    \/ \E j \in DOMAIN jobs : Skip(j)
    \/ \E j \in DOMAIN jobs : Sample(j)
    \/ \E j \in DOMAIN jobs : ReadBack(j)
    \/ \E j \in DOMAIN jobs : Unlink(j)
    \/ \E j \in DOMAIN jobs : Count(j)

Spec == Init /\ [][Next]_vars

----------------------------------------------------------------------------
(* Two compositions over the same sources and output directory, their     *)
(* steps interleaved                                                      *)

InitPar ==
    /\ temp_files = <<>>
    /\ output_files = <<>>
    /\ rng \in ComposeInitialRng
    /\ \E n \in 0..ParMaxSources : euk_files \in Groups(euk_dirs, n, 0..ParMaxRecords)
    /\ \E n \in 0..ParMaxSources : phage_files \in Groups(phage_dirs, n, 0..ParMaxRecords)
    /\ \E rp1 \in RatioPairs, rp2 \in RatioPairs, rep1 \in 1..MaxReplicate,
          rep2 \in 1..MaxReplicate, total \in 0..ParMaxTotalReads :
          /\ JobKey(rp1, rep1) < JobKey(rp2, rep2)
          /\ jobs = <<NewJob(rp1[1], rp1[2], rep1, total), NewJob(rp2[1], rp2[2], rep2, total)>>
    /\ last = NoCall
    /\ ref = NoCall

SpecPar == InitPar /\ [][Next]_vars

----------------------------------------------------------------------------
(* Direct calls of sample_reads, one after another, on one generator *)

InitSampler ==
    /\ temp_files = <<>>
    /\ output_files = <<>>
    /\ rng \in InitialRng
    /\ euk_files = <<>>
    /\ phage_files = <<>>
    /\ jobs = <<>>
    /\ last = NoCall
    /\ ref = NoCall

Call ==
    \E c \in SamplerChoices, num_reads \in 0..SamplerMaxCount,
       seed \in {None} \cup 1..MaxReplicate :
        LET file == ReadFile("src", c)
            res == sample_reads(rng, file, num_reads, seed)
            rec == CallRecord(file, num_reads, seed, res, ref.called, OtherSeed(last, seed))
        IN  /\ rng' = res.rng
            /\ last' = rec
            /\ ref' = IF ~ref.called /\ seed # None /\ Exists(file) THEN rec ELSE ref
            /\ UNCHANGED <<temp_files, output_files, euk_files, phage_files, jobs>>

NextSampler == Call

SpecSampler == InitSampler /\ [][NextSampler]_vars

----------------------------------------------------------------------------
(* Properties *)

TotalOf(call) == count_reads_in_file(Lines(call.file))

Returned(call) == call.called /\ Exists(call.file)

Artifact(j) == output_files[OutputName(jobs[j])]

\* the read indices of a sequence of lines
ReadIndices(lines) == {lines[p][2] \div LinesPerRead : p \in 1..Len(lines)}

\* the position in the visit order of the source a line comes from
SourceIndex(line) == CHOOSE i \in 1..Len(Visits) : Visits[i].org_name = line[1]

RECURSIVE ConcatSegs(_)
ConcatSegs(segs) == IF segs = <<>> THEN <<>> ELSE Head(segs).out \o ConcatSegs(Tail(segs))

\* the number of reads of the group (euk: TRUE, phage: FALSE) in job j's artifact
GroupCount(j, euk) ==
    Cardinality({p \in 1..Len(Artifact(j)) : IsEuk(SourceIndex(Artifact(j)[p])) = euk})
        \div LinesPerRead

GroupHolds(files, per_source) ==
    /\ Len(files) > 0
    /\ \A k \in 1..Len(files) :
          /\ Exists(files[k].read_file)
          /\ count_reads_in_file(Lines(files[k].read_file)) >= per_source

\* the artifact a job writes when nothing else touches the output directory
RECURSIVE AloneArtifact(_, _, _)
AloneArtifact(job, i, g) ==
    IF i > Len(Visits) THEN <<>>
    ELSE IF ShouldSample(Quota(job, i))
    THEN LET res == sample_reads(g, Visits[i].read_file, Quota(job, i), SeedFor(job, i))
         IN  res.out \o AloneArtifact(job, i + 1, res.rng)
    ELSE AloneArtifact(job, i + 1, g)

\* C1: a call with 0 <= num_reads < total reads returns normally with
\* exactly num_reads reads written and num_reads returned.
C1_ExactCount ==
    (Returned(last) /\ last.num_reads < TotalOf(last))
        => /\ last.status = "ok"
           /\ last.ret = last.num_reads
           /\ Len(last.out) = LinesPerRead * last.num_reads

\* C2: when every source of a group holds at least the per-source quota,
\* the group's reads in the finished artifact number at most reads_group
\* and at least reads_group - (|group| - 1).
C2_GroupBounds ==
    \A j \in DOMAIN jobs :
        jobs[j].pc = "done" =>
            /\ GroupHolds(euk_files, reads_per_euk(jobs[j])) =>
                  /\ GroupCount(j, TRUE) <= euk_reads(jobs[j])
                  /\ GroupCount(j, TRUE) >= euk_reads(jobs[j]) - (Len(euk_files) - 1)
            /\ GroupHolds(phage_files, reads_per_phage(jobs[j])) =>
                  /\ GroupCount(j, FALSE) <= phage_reads(jobs[j])
                  /\ GroupCount(j, FALSE) >= phage_reads(jobs[j]) - (Len(phage_files) - 1)

SameArguments(a, b) ==
    /\ a.file = b.file
    /\ a.num_reads = b.num_reads
    /\ a.seed = b.seed

\* C3: a seeded call gives the same output and count as the first seeded
\* call (ref) with the same (source, num_reads, seed), whatever calls came
\* between.
C3_SeedDeterminism ==
    (ref.called /\ last.called /\ SameArguments(last, ref))
        => /\ last.status = ref.status
           /\ last.out = ref.out
           /\ last.ret = ref.ret

\* a repeated seeded call that draws, right after a call with another seed
C3_Witness ==
    /\ ref.called
    /\ last.called
    /\ last.later
    /\ SameArguments(last, ref)
    /\ last.draws > 0
    /\ last.other_seed

EmptySourcePositiveCount(call) ==
    /\ Returned(call)
    /\ TotalOf(call) = 0
    /\ call.num_reads > 0

\* C4 as stated: a call on a source of zero reads with num_reads > 0
\* signals an error.
C4_EmptySourceRaises == EmptySourcePositiveCount(last) => last.status = "error"

\* C4 amended: a call on a source of zero reads with num_reads > 0 returns
\* normally, having copied the empty source, with 0 as its count.
C4_EmptySourceCopied ==
    EmptySourcePositiveCount(last)
        => /\ last.status = "ok"
           /\ last.out = <<>>
           /\ last.ret = 0

C4_Witness == EmptySourcePositiveCount(last) /\ last.later

\* C5: every interleaved job finishes, and with the artifact it writes when
\* run alone.
C5_Independent ==
    \A j \in DOMAIN jobs :
        /\ jobs[j].pc # "failed"
        /\ jobs[j].pc = "done" => Artifact(j) = AloneArtifact(jobs[j], 1, rng)

\* C6: a failed composition leaves none of its scratch files, and no
\* artifact file holding some of its reads (an absent or empty file is
\* allowed here, which is no more than the claim asks).
C6_NothingLeft ==
    \A j \in DOMAIN jobs :
        jobs[j].pc = "failed" =>
            /\ \A i \in 1..Len(Visits) :
                  TempName(Visits[i].org_name, jobs[j].replicate_num) \notin DOMAIN temp_files
            /\ \/ OutputName(jobs[j]) \notin DOMAIN output_files
               \/ Artifact(j) = <<>>

\* C7: the finished artifact is the sampled outputs joined in visit order
\* (eukaryotes first, each group in input order), every line a line of a
\* sampled source, and the lines of one source in strictly increasing
\* (original) order.
C7_VisitOrder ==
    \A j \in DOMAIN jobs :
        jobs[j].pc = "done" =>
            LET art == Artifact(j) IN
            /\ art = ConcatSegs(jobs[j].segs)
            /\ {jobs[j].segs[a].i : a \in 1..Len(jobs[j].segs)} =
                  {i \in 1..Len(Visits) : ShouldSample(Quota(jobs[j], i))}
            /\ \A p \in 1..Len(art) :
                  \E i \in jobs[j].sampled :
                      /\ art[p][1] = Visits[i].org_name
                      /\ art[p][2] + 1 \in 1..Len(Lines(Visits[i].read_file))
                      /\ art[p] = Lines(Visits[i].read_file)[art[p][2] + 1]
            /\ \A p, q \in 1..Len(art) :
                  p < q => \/ SourceIndex(art[p]) < SourceIndex(art[q])
                           \/ /\ SourceIndex(art[p]) = SourceIndex(art[q])
                              /\ art[p][2] < art[q][2]

\* a finished artifact of two sources, one of them a random selection of
\* at least two reads
C7_Witness ==
    \E j \in DOMAIN jobs :
        /\ jobs[j].pc = "done"
        /\ Len(jobs[j].segs) >= 2
        /\ \E a, b \in 1..Len(jobs[j].segs) :
              /\ a # b
              /\ Len(jobs[j].segs[a].out) >= 2 * LinesPerRead
              /\ Len(jobs[j].segs[a].out) < Len(Lines(Visits[jobs[j].segs[a].i].read_file))
              /\ Len(jobs[j].segs[b].out) > 0

\* C8: a call with num_reads >= total reads copies the source unchanged,
\* returns the total and draws no random number.
C8_FullCopy ==
    (Returned(last) /\ last.num_reads >= TotalOf(last))
        => /\ last.status = "ok"
           /\ last.out = Lines(last.file)
           /\ last.ret = TotalOf(last)
           /\ last.draws = 0

C8_Witness ==
    /\ Returned(last)
    /\ last.num_reads = TotalOf(last)
    /\ TotalOf(last) >= 2

\* C9: a source with quota 0 is never passed to sample_reads and has no
\* line in the artifact; a job whose quotas are all 0 never fails and
\* finishes with an empty artifact and count 0.
C9_ZeroQuota ==
    \A j \in DOMAIN jobs :
        /\ \A i \in jobs[j].sampled : Quota(jobs[j], i) > 0
        /\ OutputName(jobs[j]) \in DOMAIN output_files =>
              \A p \in 1..Len(Artifact(j)) :
                  Quota(jobs[j], SourceIndex(Artifact(j)[p])) > 0
        /\ (reads_per_euk(jobs[j]) = 0 /\ reads_per_phage(jobs[j]) = 0) =>
              /\ jobs[j].pc # "failed"
              /\ jobs[j].pc = "done" =>
                    /\ Artifact(j) = <<>>
                    /\ jobs[j].final_read_count = 0

\* a finished job that skipped a missing source of a zero-quota group, the
\* other group being empty
C9_Witness ==
    \E j \in DOMAIN jobs :
        /\ jobs[j].pc = "done"
        /\ Len(euk_files) > 0
        /\ ~Exists(euk_files[1].read_file)
        /\ reads_per_euk(jobs[j]) = 0
        /\ Len(phage_files) = 0
        /\ jobs[j].total_reads > 0

\* C10: every call made by a job carries the replicate index as seed, and
\* two sampled sources of one group with equally many reads get the same
\* set of read indices.
C10_SameDraws ==
    \A j \in DOMAIN jobs :
        /\ (last.called /\ jobs[j].sampled # {}) => last.seed = jobs[j].replicate_num
        /\ \A a, b \in 1..Len(jobs[j].segs) :
              LET sa == jobs[j].segs[a]
                  sb == jobs[j].segs[b]
              IN  (/\ IsEuk(sa.i) = IsEuk(sb.i)
                   /\ Len(Lines(Visits[sa.i].read_file)) = Len(Lines(Visits[sb.i].read_file)))
                      => ReadIndices(sa.out) = ReadIndices(sb.out)

\* two sources of one group, equally long, each with a proper non-empty
\* random selection
C10_Witness ==
    \E j \in DOMAIN jobs :
        \E a, b \in 1..Len(jobs[j].segs) :
            LET sa == jobs[j].segs[a]
                sb == jobs[j].segs[b]
            IN  /\ a # b
                /\ IsEuk(sa.i) = IsEuk(sb.i)
                /\ Len(Lines(Visits[sa.i].read_file)) = Len(Lines(Visits[sb.i].read_file))
                /\ sa.out # <<>>
                /\ Len(sa.out) < Len(Lines(Visits[sa.i].read_file))

====
